---- MODULE Spec2Model ----
(***************************************************************************)
(* A model of the SCSL record store (src/impl/scsl.py): the field model,   *)
(* the Table record constructor, the Database (tables, data, relations,    *)
(* enums) and its binary codec.                                            *)
(***************************************************************************)
EXTENDS Integers, Sequences, FiniteSets, TLC

VARIABLES
    program,    \* the Table classes and TableEnums the calling script defines
    tables,     \* Database.tables : the registered classes, in dict order
    data,       \* Database.data : class name -> sequence of records
    relations,  \* Database.relations : "{Owner}_{Target}" -> (owner id -> keys)
    enums,      \* Database.enums : the registered enums, in dict order
    last,       \* the last call made on the Database and how it ended
    record,     \* the Table instance a script holds outside any Database
    checked,    \* the last call of a function on its own, with its result
    decoder     \* a run of deserialize_from_binary: its stream and how far it is

vars == <<program, tables, data, relations, enums, last, record, checked, decoder>>

-----------------------------------------------------------------------------
(* Bounds of the model.                                                    *)

\* at most this many records are held by a Database, all tables together
MaxRecords == 3
\* the largest max_length an ArrayField is declared with; the lists passed
\* to it have up to one element more
MaxLen == 2

-----------------------------------------------------------------------------
(* Python values. Every value has the same shape, so that any two can be   *)
(* compared: k is the Python type, i an integer payload, s a string        *)
(* payload, d the components of a date/time, e the elements of a list or   *)
(* the field values of a Table instance.                                   *)

Val(k, i, s, d, e) == [k |-> k, i |-> i, s |-> s, d |-> d, e |-> e]

NoneV == Val("none", 0, "", <<>>, <<>>)
IntV(n) == Val("int", n, "", <<>>, <<>>)
BoolV(b) == Val("bool", IF b THEN 1 ELSE 0, "", <<>>, <<>>)
\* a float is held by the integer it equals (1.0 is FloatV(1))
FloatV(n) == Val("float", n, "", <<>>, <<>>)
StrV(s) == Val("str", 0, s, <<>>, <<>>)
DateV(y, m, dd) == Val("date", 0, "", <<y, m, dd>>, <<>>)
TimeV(h, mi, sec) == Val("time", 0, "", <<h, mi, sec>>, <<>>)
DateTimeV(y, m, dd, h, mi, sec) == Val("datetime", 0, "", <<y, m, dd, h, mi, sec>>, <<>>)
ListV(items) == Val("list", 0, "", <<>>, items)
\* a Table instance used as a value: its class name and its field values
ObjV(cname, vals) == Val("obj", 0, cname, <<>>, vals)
\* the (table_name, obj_id) pair decode_value returns for tag 0x06
TupleV(cname, n) == Val("tuple", n, cname, <<>>, <<>>)
\* a TableEnum used as a value (tag 0x0B)
EnumV(name, values) == Val("enum", 0, name, <<>>, values)

IsNone(v) == v.k = "none"

\* isinstance(value, t) for the builtin types the fields use: bool is a
\* subclass of int and datetime a subclass of date
IsInstance(v, t) ==
    CASE t = "int" -> v.k \in {"int", "bool"}
      [] t = "date" -> v.k \in {"date", "datetime"}
      [] OTHER -> v.k = t

Numeric == {"int", "bool", "float"}

\* Python's ==: numbers compare by value whatever their type, lists
\* element by element, everything else with its own kind only
RECURSIVE PyEq(_, _)
PyEq(a, b) ==
    IF a.k \in Numeric /\ b.k \in Numeric THEN a.i = b.i
    ELSE IF a.k = "list" /\ b.k = "list"
    THEN /\ Len(a.e) = Len(b.e)
         /\ \A n \in 1..Len(a.e) : PyEq(a.e[n], b.e[n])
    ELSE a = b

-----------------------------------------------------------------------------
(* Enums.                                                                  *)

\* TableEnum(name, values): values is the ordered label -> value mapping
TableEnum(name, values) == [name |-> name, values |-> values]
NoEnum == TableEnum("", <<>>)
EnumEntry(label, v) == [label |-> label, value |-> v]
EnumValues(enum) == {enum.values[n].value : n \in 1..Len(enum.values)}

-----------------------------------------------------------------------------
(* Fields.                                                                 *)

\* Field.__init__: the attributes every field has, with their defaults;
\* the attributes of the subclasses are present on every field so that all
\* fields have one shape ("" and NoneV where the subclass has none)
Field(cls, field_type) ==
    [cls |-> cls, field_type |-> field_type,
     primary_key |-> FALSE, null |-> TRUE, unique |-> FALSE, default |-> NoneV,
     max_length |-> NoneV, min_value |-> NoneV, max_value |-> NoneV,
     item_type |-> "", to |-> "", to_is_class |-> FALSE, relation_type |-> "",
     enum |-> NoEnum]

DefaultStringMax == 255
DefaultIntMin == 0
DefaultIntMax == 2147483647

StringField == [Field("StringField", "str") EXCEPT !.max_length = IntV(DefaultStringMax)]
IntegerField ==
    [Field("IntegerField", "int") EXCEPT !.min_value = IntV(DefaultIntMin),
                                         !.max_value = IntV(DefaultIntMax)]
FloatField ==
    [Field("FloatField", "float") EXCEPT !.min_value = FloatV(DefaultIntMin),
                                         !.max_value = FloatV(DefaultIntMax)]
ArrayField(item_type, max_length) ==
    [Field("ArrayField", "list") EXCEPT !.item_type = item_type, !.max_length = max_length]
DateField == Field("DateField", "date")
TimeField == Field("TimeField", "time")
DateTimeField == Field("DateTimeField", "datetime")
BooleanField == Field("BooleanField", "bool")
\* RelationField(to, relation_type): field_type is `to` itself, a class when
\* the script passes one and a string when the decoder builds the field
RelationField(to, to_is_class, relation_type) ==
    [Field("RelationField", to) EXCEPT !.to = to, !.to_is_class = to_is_class,
                                       !.relation_type = relation_type]
ForeignKeyField(to, to_is_class) ==
    [Field("ForeignKeyField", "int") EXCEPT !.to = to, !.to_is_class = to_is_class]
ManyToManyField(to, to_is_class) ==
    [Field("ManyToManyField", "list") EXCEPT !.to = to, !.to_is_class = to_is_class]
EnumField(enum) == [Field("EnumField", "int") EXCEPT !.enum = enum]

\* the outcome of a call that returns a value or raises
Ok(v) == [err |-> "", v |-> v]
Raise(err) == [err |-> err, v |-> NoneV]

\* Field.validate
FieldValidate(fld, v) ==
    IF IsNone(v) /\ ~fld.null THEN Raise("ValueError")
    ELSE IF ~IsNone(v) /\ fld.cls = "RelationField" /\ ~fld.to_is_class
    THEN Raise("TypeError")   \* isinstance(value, "User"): arg 2 is no type
    ELSE IF ~IsNone(v) /\ fld.cls = "RelationField" /\ ~(v.k = "obj" /\ v.s = fld.to)
    THEN Raise("TypeError")
    ELSE IF ~IsNone(v) /\ fld.cls # "RelationField" /\ ~IsInstance(v, fld.field_type)
    THEN Raise("TypeError")
    ELSE Ok(v)

\* IntegerField.validate and FloatField.validate
RangeValidate(fld, v) ==
    LET r == FieldValidate(fld, v) IN
    IF r.err # "" \/ IsNone(r.v) THEN r
    ELSE IF ~IsNone(fld.min_value) /\ r.v.i < fld.min_value.i THEN Raise("ValueError")
    ELSE IF ~IsNone(fld.max_value) /\ r.v.i > fld.max_value.i THEN Raise("ValueError")
    ELSE r

\* an ArrayField.validate that also rejects a list of exactly max_length
ArrayValidate_OffByOne(fld, v) ==
    LET r == FieldValidate(fld, v) IN
    IF r.err # "" \/ IsNone(r.v) THEN r
    ELSE IF ~IsNone(fld.max_length) /\ Len(r.v.e) >= fld.max_length.i THEN Raise("ValueError")
    ELSE IF \E n \in 1..Len(r.v.e) : ~IsInstance(r.v.e[n], fld.item_type) THEN Raise("TypeError")
    ELSE r

\* ArrayField.validate
ArrayValidate(fld, v) ==
    LET r == FieldValidate(fld, v) IN
    IF r.err # "" \/ IsNone(r.v) THEN r
    ELSE IF ~IsNone(fld.max_length) /\ Len(r.v.e) > fld.max_length.i THEN Raise("ValueError")
    ELSE IF \E n \in 1..Len(r.v.e) : ~IsInstance(r.v.e[n], fld.item_type) THEN Raise("TypeError")
    ELSE r

\* date.fromisoformat, time.fromisoformat, datetime.fromisoformat on the
\* texts of the model
FromIsoformat(t, s) ==
    CASE t = "date" /\ s = "2024-09-25" -> Ok(DateV(2024, 9, 25))
      [] t = "time" /\ s = "14:35:00" -> Ok(TimeV(14, 35, 0))
      [] t = "datetime" /\ s = "2024-09-25T14:35:00" -> Ok(DateTimeV(2024, 9, 25, 14, 35, 0))
      [] t = "datetime" /\ s = "2024-09-25" -> Ok(DateTimeV(2024, 9, 25, 0, 0, 0))
      [] OTHER -> Raise("ValueError")

\* DateField.validate, TimeField.validate and DateTimeField.validate
TemporalValidate(fld, v) ==
    LET r == FieldValidate(fld, v) IN
    IF r.err # "" THEN r
    ELSE IF ~IsNone(r.v) /\ ~IsInstance(r.v, fld.field_type)
    THEN FromIsoformat(fld.field_type, r.v.s)
    ELSE r

\* EnumField.validate
EnumValidate(fld, v) ==
    LET r == FieldValidate(fld, v) IN
    IF r.err # "" THEN r
    ELSE IF ~IsNone(r.v) /\ ~(\E m \in EnumValues(fld.enum) : PyEq(r.v, m))
    THEN Raise("ValueError")
    ELSE r

\* field.validate(value), by the class of the field
Validate(fld, v) ==
    CASE fld.cls \in {"IntegerField", "FloatField"} -> RangeValidate(fld, v)
      [] fld.cls = "ArrayField" -> ArrayValidate(fld, v)
      [] fld.cls \in {"DateField", "TimeField", "DateTimeField"} -> TemporalValidate(fld, v)
      [] fld.cls = "EnumField" -> EnumValidate(fld, v)
      [] OTHER -> FieldValidate(fld, v)

-----------------------------------------------------------------------------
(* Table classes and records.                                              *)

\* a Table subclass: its __name__ and _fields, the ordered name -> Field
\* mapping TableMeta collects
ClassDef(name, fields) == [name |-> name, fields |-> fields]
FieldDecl(name, fld) == [name |-> name, fld |-> fld]

FieldNames(cls) == {cls.fields[n].name : n \in 1..Len(cls.fields)}
FieldIndex(cls, name) == CHOOSE n \in 1..Len(cls.fields) : cls.fields[n].name = name

\* the classes and enums of the scripts (the test programs of the repository)
Title == TableEnum("Title", <<EnumEntry("Mr", IntV(1)), EnumEntry("Mrs", IntV(2)),
                              EnumEntry("Dr", IntV(3))>>)

User ==
    ClassDef("User", <<FieldDecl("id", [IntegerField EXCEPT !.primary_key = TRUE]),
                       FieldDecl("name", StringField)>>)
Post ==
    ClassDef("Post", <<FieldDecl("id", [IntegerField EXCEPT !.primary_key = TRUE]),
                       FieldDecl("creator", ForeignKeyField("User", TRUE))>>)
Group ==
    ClassDef("Group", <<FieldDecl("id", [IntegerField EXCEPT !.primary_key = TRUE]),
                        FieldDecl("members", ManyToManyField("User", TRUE))>>)
House ==
    ClassDef("House", <<FieldDecl("id", [IntegerField EXCEPT !.primary_key = TRUE]),
                        FieldDecl("owner", RelationField("User", TRUE, "OneToOne"))>>)
Person ==
    ClassDef("Person", <<FieldDecl("name", StringField),
                         FieldDecl("title", EnumField(Title))>>)

\* the User of array_date_test.py, under a name of its own
Member ==
    ClassDef("Member", <<FieldDecl("id", [IntegerField EXCEPT !.primary_key = TRUE]),
                         FieldDecl("join_date", DateField),
                         FieldDecl("last_login", DateTimeField),
                         FieldDecl("num_list", ArrayField("int", IntV(MaxLen)))>>)

Classes == {User, Post, Group, House, Person, Member}
ClassNamed(name) == CHOOSE c \in Classes : c.name = name

\* a record: an instance of a Table class, holding one value per field of
\* the class, in the order of _fields
Record(cls, vals) == [cls |-> cls, vals |-> vals]

HasAttr(rec, name) == name \in FieldNames(rec.cls)
GetAttr(rec, name) == rec.vals[FieldIndex(rec.cls, name)]

\* a record used as a value, and v.id of such a value (the field names of a
\* class are those of the script's class of that name, decoded or not)
AsValue(rec) == ObjV(rec.cls.name, rec.vals)
ObjHasId(v) == "id" \in FieldNames(ClassNamed(v.s))
ObjId(v) == v.e[FieldIndex(ClassNamed(v.s), "id")]

\* the conversion Table.__init__ and Table.__setattr__ apply before they
\* validate: a ForeignKey holds value.id, a ManyToMany the list of v.id
\* (the model gives a ManyToMany field a list or a value that is not iterable)
KeyOf(v) == IF v.k = "obj" THEN ObjId(v) ELSE v
ToKeys(fld, v) ==
    IF fld.cls = "ForeignKeyField"
    THEN IF v.k = "obj" /\ ~ObjHasId(v) THEN Raise("AttributeError") ELSE Ok(KeyOf(v))
    ELSE IF fld.cls = "ManyToManyField"
    THEN IF v.k # "list" THEN Raise("TypeError")
         ELSE IF \E n \in 1..Len(v.e) : v.e[n].k = "obj" /\ ~ObjHasId(v.e[n])
         THEN Raise("AttributeError")
         ELSE Ok(ListV([n \in 1..Len(v.e) |-> KeyOf(v.e[n])]))
    ELSE Ok(v)

\* a __setattr__ that stores the converted value without validating it
SetAttr_Unchecked(fld, v) == ToKeys(fld, v)

\* Table.__setattr__ on a declared field: the value the field then holds
SetAttr(fld, v) ==
    LET c == ToKeys(fld, v) IN
    IF c.err # "" THEN c ELSE Validate(fld, c.v)

\* the body of the loop of Table.__init__ for one field
InitField(fld, v) ==
    LET c == ToKeys(fld, v) IN
    IF c.err # "" THEN c
    ELSE LET r == Validate(fld, c.v) IN
         IF r.err # "" THEN r ELSE SetAttr(fld, r.v)

\* Table.__init__(**kwargs): kwargs is a function from some field names to
\* values; a field without a keyword takes field.default
KwargsGet(kwargs, decl) ==
    IF decl.name \in DOMAIN kwargs THEN kwargs[decl.name] ELSE decl.fld.default

New(cls, kwargs) ==
    LET r == [n \in 1..Len(cls.fields) |->
                  InitField(cls.fields[n].fld, KwargsGet(kwargs, cls.fields[n]))]
        bad == {n \in 1..Len(cls.fields) : r[n].err # ""}
    IN IF bad = {}
       THEN [err |-> "", rec |-> Record(cls, [n \in 1..Len(cls.fields) |-> r[n].v])]
       ELSE [err |-> r[CHOOSE n \in bad : \A m \in bad : n <= m].err,
             rec |-> Record(cls, <<>>)]

-----------------------------------------------------------------------------
(* The Database. A Python dict whose order matters (tables, enums) is a    *)
(* sequence of the items, each carrying its key as .name; data has the     *)
(* keys of tables, in the same order.                                      *)

EmptyDict == [x \in {} |-> x]

\* Database.__init__
NewDatabase == [tables |-> <<>>, data |-> EmptyDict, relations |-> EmptyDict, enums |-> <<>>]

Names(items) == {items[n].name : n \in 1..Len(items)}

\* d[item.name] = item on an ordered dict: a key already present keeps its
\* position and takes the new item
DictSet(items, item) ==
    IF item.name \in Names(items)
    THEN [n \in 1..Len(items) |-> IF items[n].name = item.name THEN item ELSE items[n]]
    ELSE Append(items, item)

DictGet(items, name) == items[CHOOSE n \in 1..Len(items) : items[n].name = name]

\* f"{table_name}_{other_table_name}"
RelationTableName(table_name, other) == table_name \o "_" \o other

ManyToManyTargets(cls) ==
    {cls.fields[n].fld.to : n \in {m \in 1..Len(cls.fields) :
                                     cls.fields[m].fld.cls = "ManyToManyField"}}

\* Database.add_table
add_table(db, cls) ==
    [db EXCEPT
       !.tables = DictSet(db.tables, cls),
       !.data = (cls.name :> <<>>) @@ db.data,
       !.relations =
           [r \in {RelationTableName(cls.name, t) : t \in ManyToManyTargets(cls)}
              |-> EmptyDict] @@ db.relations]

\* Database.add_enum
add_enum(db, enum) == [db EXCEPT !.enums = DictSet(db.enums, enum)]

\* the loop of Database.add_record over record._fields, from field n on:
\* the relations it leaves and the error that ended it
RECURSIVE AddRelations(_, _, _, _)
AddRelations(rels, table_name, rec, n) ==
    IF n > Len(rec.cls.fields) THEN [relations |-> rels, err |-> ""]
    ELSE LET decl == rec.cls.fields[n]
             name == RelationTableName(table_name, decl.fld.to)
         IN IF decl.fld.cls # "ManyToManyField"
            THEN AddRelations(rels, table_name, rec, n + 1)
            ELSE IF ~HasAttr(rec, "id") THEN [relations |-> rels, err |-> "AttributeError"]
            ELSE IF name \notin DOMAIN rels THEN [relations |-> rels, err |-> "KeyError"]
            ELSE LET id == GetAttr(rec, "id")
                     old == IF id \in DOMAIN rels[name] THEN rels[name][id] ELSE <<>>
                     new == old \o GetAttr(rec, decl.name).e
                 IN AddRelations((name :> ((id :> new) @@ rels[name])) @@ rels,
                                 table_name, rec, n + 1)

\* add_record as a store that creates the table it is given would behave
add_record_AutoCreate(db, table_name, rec) ==
    LET r == AddRelations(db.relations, table_name, rec, 1)
    IN [db |-> [db EXCEPT !.data = (table_name :>
                    (IF table_name \in DOMAIN db.data THEN db.data[table_name] ELSE <<>>)
                    \o <<rec>>) @@ db.data,
                          !.relations = r.relations],
        err |-> r.err]

\* Database.add_record: the database it leaves and the error it raised
add_record(db, table_name, rec) ==
    IF table_name \in DOMAIN db.data
    THEN LET r == AddRelations(db.relations, table_name, rec, 1)
         IN [db |-> [db EXCEPT !.data[table_name] = Append(@, rec),
                               !.relations = r.relations],
             err |-> r.err]
    ELSE [db |-> db, err |-> "ValueError"]

\* all(getattr(record, field_name) == value for field_name, value in
\* kwargs.items()), from criterion n on: all() stops at the first criterion
\* that differs, and getattr raises on a name the record does not have
RECURSIVE Matches(_, _, _)
Matches(rec, criteria, n) ==
    IF n > Len(criteria) THEN "yes"
    ELSE IF ~HasAttr(rec, criteria[n].name) THEN "AttributeError"
    ELSE IF ~PyEq(GetAttr(rec, criteria[n].name), criteria[n].value) THEN "no"
    ELSE Matches(rec, criteria, n + 1)

Criterion(name, value) == [name |-> name, value |-> value]

\* SelectSeq(records, Test) without the operator argument
RECURSIVE Filter(_, _)
Filter(records, criteria) ==
    IF records = <<>> THEN <<>>
    ELSE (IF Matches(Head(records), criteria, 1) = "yes" THEN <<Head(records)>> ELSE <<>>)
         \o Filter(Tail(records), criteria)

\* Database.get: what it raises, and else the shape of what it returns:
\* "none" (None), "one" (the record records[1]) or "many" (the list records)
GetResult(err, shape, records) == [err |-> err, shape |-> shape, records |-> records]

\* get without the collapse of a single match to the record itself
get_NoCollapse(db, table_name, criteria) ==
    IF table_name \notin Names(db.tables) THEN GetResult("ValueError", "none", <<>>)
    ELSE LET all_records == db.data[table_name]
             records == Filter(all_records, criteria)
         IN IF \E n \in 1..Len(all_records) :
                   Matches(all_records[n], criteria, 1) = "AttributeError"
            THEN GetResult("AttributeError", "none", <<>>)
            ELSE IF Len(records) = 0 THEN GetResult("", "none", <<>>)
            ELSE GetResult("", "many", records)

get(db, table_name, criteria) ==
    IF table_name \notin Names(db.tables) THEN GetResult("ValueError", "none", <<>>)
    ELSE LET all_records == db.data[table_name]
             records == Filter(all_records, criteria)
         IN IF \E n \in 1..Len(all_records) :
                   Matches(all_records[n], criteria, 1) = "AttributeError"
            THEN GetResult("AttributeError", "none", <<>>)
            ELSE IF Len(records) = 1 THEN GetResult("", "one", records)
            ELSE IF Len(records) = 0 THEN GetResult("", "none", <<>>)
            ELSE GetResult("", "many", records)

\* Database.all
all(db, table_name) ==
    IF table_name \notin Names(db.tables) THEN [err |-> "ValueError", records |-> <<>>]
    ELSE [err |-> "", records |-> db.data[table_name]]

\* what Database.get returned, as a Python value
ReturnedValue(g) ==
    CASE g.shape = "none" -> NoneV
      [] g.shape = "one" -> AsValue(g.records[1])
      [] OTHER -> ListV([n \in 1..Len(g.records) |-> AsValue(g.records[n])])

\* Database.get_related_table_record: the error raised, else the list returned
get_related_table_record(db, table_name, record_id, related_table_name) ==
    LET name == RelationTableName(table_name, related_table_name)
        entries == IF name \in DOMAIN db.relations THEN db.relations[name] ELSE EmptyDict
        related_ids == IF record_id \in DOMAIN entries THEN entries[record_id] ELSE <<>>
        got == [n \in 1..Len(related_ids) |->
                   get(db, related_table_name, <<Criterion("id", related_ids[n])>>)]
        bad == {n \in 1..Len(related_ids) : got[n].err # ""}
    IN IF bad # {}
       THEN [err |-> got[CHOOSE n \in bad : \A m \in bad : n <= m].err, v |-> <<>>]
       ELSE [err |-> "", v |-> [n \in 1..Len(related_ids) |-> ReturnedValue(got[n])]]

-----------------------------------------------------------------------------
(* The binary stream. The stream is a sequence of units, one per           *)
(* struct.pack call or string payload: u is the kind of the unit ("tag" a  *)
(* tag byte, "u32" a '!I', "i64" a '!q', "f64" a '!d', "bool" a '!?',      *)
(* "bytes" the utf-8 bytes of a string, "json" the bytes of a json text),  *)
(* n its number, s its text and j its json content.                        *)

Unit(u, n, s, j) == [u |-> u, n |-> n, s |-> s, j |-> j]
Tag(n) == Unit("tag", n, "", <<>>)
U32(n) == Unit("u32", n, "", <<>>)
I64(n) == Unit("i64", n, "", <<>>)
F64(n) == Unit("f64", n, "", <<>>)
Bool8(n) == Unit("bool", n, "", <<>>)
Bytes(s) == Unit("bytes", Len(s), s, <<>>)

\* encode_string: the length, then the bytes when there are any
encode_string(s) == IF Len(s) = 0 THEN <<U32(0)>> ELSE <<U32(Len(s)), Bytes(s)>>

\* json.dumps of a TableEnum.values mapping and json.loads of the text: a
\* json text holds, per label, a number, a real, a string, true, false or null
JsonItem(label, t, n, s) == [label |-> label, t |-> t, n |-> n, s |-> s]
JsonOf(entry) ==
    CASE entry.value.k = "int" -> JsonItem(entry.label, "number", entry.value.i, "")
      [] entry.value.k = "float" -> JsonItem(entry.label, "real", entry.value.i, "")
      [] entry.value.k = "str" -> JsonItem(entry.label, "string", 0, entry.value.s)
      [] entry.value.k = "bool" ->
             JsonItem(entry.label, IF entry.value.i = 1 THEN "true" ELSE "false", 0, "")
      [] OTHER -> JsonItem(entry.label, "null", 0, "")
json_dumps(values) == [n \in 1..Len(values) |-> JsonOf(values[n])]
FromJson(item) ==
    CASE item.t = "number" -> EnumEntry(item.label, IntV(item.n))
      [] item.t = "real" -> EnumEntry(item.label, FloatV(item.n))
      [] item.t = "string" -> EnumEntry(item.label, StrV(item.s))
      [] item.t = "true" -> EnumEntry(item.label, BoolV(TRUE))
      [] item.t = "false" -> EnumEntry(item.label, BoolV(FALSE))
      [] OTHER -> EnumEntry(item.label, NoneV)
json_loads(j) == [n \in 1..Len(j) |-> FromJson(j[n])]

\* encode_string(json.dumps(enum.values)): a length and the json text
\* (the length of the text is held as 2 for the braces and 1 per item)
JsonLength(values) == 2 + Len(values)
encode_json(values) ==
    <<U32(JsonLength(values)), Unit("json", JsonLength(values), "", json_dumps(values))>>

\* id(value): the address of the object, which the decoder never resolves
ObjectAddress(v) == 4096 + Len(v.e)

\* the concatenation of a sequence of streams (binary_data += ...)
RECURSIVE Concat(_)
Concat(streams) == IF streams = <<>> THEN <<>> ELSE Head(streams) \o Concat(Tail(streams))

\* encode_value: the isinstance chain, in its order (an int before a bool)
RECURSIVE encode_value(_)
encode_value(v) ==
    IF v.k = "str" THEN <<Tag(1)>> \o encode_string(v.s)
    ELSE IF v.k \in {"int", "bool"} THEN <<Tag(2), I64(v.i)>>
    ELSE IF v.k = "float" THEN <<Tag(3), F64(v.i)>>
    ELSE IF v.k = "bool" THEN <<Tag(4), Bool8(v.i)>>
    ELSE IF v.k = "none" THEN <<Tag(5)>>
    ELSE IF v.k = "obj" THEN <<Tag(6)>> \o encode_string(v.s) \o <<I64(ObjectAddress(v))>>
    ELSE IF v.k = "datetime" THEN <<Tag(9)>> \o [n \in 1..6 |-> U32(v.d[n])]
    ELSE IF v.k = "date" THEN <<Tag(7)>> \o [n \in 1..3 |-> U32(v.d[n])]
    ELSE IF v.k = "time" THEN <<Tag(8)>> \o [n \in 1..3 |-> U32(v.d[n])]
    ELSE IF v.k = "list"
    THEN <<Tag(10), U32(Len(v.e))>> \o Concat([n \in 1..Len(v.e) |-> encode_value(v.e[n])])
    ELSE IF v.k = "enum" THEN <<Tag(11)>> \o encode_string(v.s)
    ELSE <<Unit("ValueError", 0, "", <<>>)>>

\* the metadata serialize_to_binary writes after the class name of a field
FieldMetadata(fld) ==
    CASE fld.cls = "RelationField" -> encode_string(fld.to) \o encode_string(fld.relation_type)
      [] fld.cls = "ArrayField" ->
             encode_string(fld.item_type)
             \o <<U32(IF IsNone(fld.max_length) THEN 0 ELSE fld.max_length.i)>>
      [] fld.cls \in {"ForeignKeyField", "ManyToManyField"} -> encode_string(fld.to)
      [] fld.cls = "EnumField" -> encode_string(fld.enum.name)
      [] OTHER -> <<>>

EncodeEnum(enum) == encode_string(enum.name) \o encode_json(enum.values)

EncodeClass(cls) ==
    encode_string(cls.name) \o <<U32(Len(cls.fields))>>
    \o Concat([n \in 1..Len(cls.fields) |->
                  encode_string(cls.fields[n].name) \o encode_string(cls.fields[n].fld.cls)
                  \o FieldMetadata(cls.fields[n].fld)])

EncodeRecord(rec) ==
    <<U32(Len(rec.cls.fields))>>
    \o Concat([n \in 1..Len(rec.cls.fields) |->
                  encode_string(rec.cls.fields[n].name) \o encode_value(rec.vals[n])])

\* a Data section that writes the records of a table last to first
EncodeTableData_Reversed(table_name, records) ==
    encode_string(table_name) \o <<U32(Len(records))>>
    \o Concat([n \in 1..Len(records) |-> EncodeRecord(records[Len(records) + 1 - n])])

\* the Data section of one table: its name, its records in list order
EncodeTableData(table_name, records) ==
    encode_string(table_name) \o <<U32(Len(records))>>
    \o Concat([n \in 1..Len(records) |-> EncodeRecord(records[n])])

\* Database.serialize_to_binary: the enums, the tables and the data, each
\* in the order of its dict (data has the keys of tables, in their order)
serialize_to_binary(d) ==
    <<U32(Len(d.enums))>>
    \o Concat([n \in 1..Len(d.enums) |-> EncodeEnum(d.enums[n])])
    \o <<U32(Len(d.tables))>>
    \o Concat([n \in 1..Len(d.tables) |-> EncodeClass(d.tables[n])])
    \o <<U32(Len(d.tables))>>
    \o Concat([n \in 1..Len(d.tables) |->
                  EncodeTableData(d.tables[n].name, d.data[d.tables[n].name])])

-----------------------------------------------------------------------------
(* Database.deserialize_from_binary. Every reader takes the stream and the *)
(* index and gives the error raised ("" when none), the index after the    *)
(* read and what was read.                                                 *)

Read(err, i, x) == [err |-> err, i |-> i, x |-> x]

\* struct.unpack of one number of kind u at index i
unpack(st, i, u) ==
    IF i <= Len(st) /\ st[i].u = u THEN Read("", i + 1, st[i].n)
    ELSE Read("struct.error", i, 0)

\* the value of an expression that names a result once: The({e : x \in {r}})
\* is e with x standing for r
The(S) == CHOOSE x \in S : TRUE

\* struct.unpack of k numbers '!I'
RECURSIVE unpack_u32s(_, _, _)
unpack_u32s(st, i, k) ==
    IF k = 0 THEN Read("", i, <<>>)
    ELSE The({
        IF a.err # "" THEN Read(a.err, i, <<>>)
        ELSE The({Read(rest.err, rest.i, <<a.x>> \o rest.x) :
                  rest \in {unpack_u32s(st, a.i, k - 1)}})
        : a \in {unpack(st, i, "u32")}})

\* decode_string: the unit holding the text read (its .s, or its .j for a
\* json text); the slice past the end of the stream is the empty text
decode_string(st, i) ==
    LET len == unpack(st, i, "u32") IN
    IF len.err # "" THEN Read(len.err, i, Bytes(""))
    ELSE IF len.x = 0 \/ len.i > Len(st) THEN Read("", len.i, Bytes(""))
    ELSE IF st[len.i].u \in {"bytes", "json"} THEN Read("", len.i + 1, st[len.i])
    ELSE Read("UnicodeDecodeError", len.i, Bytes(""))

\* json.loads(decode_string())
decode_json(st, i) ==
    LET text == decode_string(st, i) IN
    IF text.err # "" THEN Read(text.err, text.i, <<>>)
    ELSE IF text.x.u # "json" THEN Read("JSONDecodeError", text.i, <<>>)
    ELSE Read("", text.i, json_loads(text.x.j))

\* decode_value, and the list comprehension of tag 0x0A from item k on
RECURSIVE decode_value(_, _)
RECURSIVE decode_values(_, _, _)
decode_values(st, i, k) ==
    IF k = 0 THEN Read("", i, <<>>)
    ELSE The({
        IF a.err # "" THEN Read(a.err, a.i, <<>>)
        ELSE The({Read(rest.err, rest.i, <<a.x>> \o rest.x) :
                  rest \in {decode_values(st, a.i, k - 1)}})
        : a \in {decode_value(st, i)}})

decode_value(st, i) ==
    IF i > Len(st) THEN Read("IndexError", i, NoneV)
    ELSE IF st[i].u # "tag" THEN Read("ValueError", i, NoneV)
    ELSE LET value_type == st[i].n IN
      CASE value_type = 1 ->
             LET r == decode_string(st, i + 1) IN Read(r.err, r.i, StrV(r.x.s))
        [] value_type = 2 ->
             LET r == unpack(st, i + 1, "i64") IN Read(r.err, r.i, IntV(r.x))
        [] value_type = 3 ->
             LET r == unpack(st, i + 1, "f64") IN Read(r.err, r.i, FloatV(r.x))
        [] value_type = 4 ->
             LET r == unpack(st, i + 1, "bool") IN Read(r.err, r.i, BoolV(r.x # 0))
        [] value_type = 5 -> Read("", i + 1, NoneV)
        [] value_type = 6 ->
             LET name == decode_string(st, i + 1)
                 obj_id == unpack(st, name.i, "i64")
             IN IF name.err # "" THEN Read(name.err, name.i, NoneV)
                ELSE Read(obj_id.err, obj_id.i, TupleV(name.x.s, obj_id.x))
        [] value_type = 7 ->
             The({IF r.err # "" THEN Read(r.err, r.i, NoneV)
                  ELSE Read("", r.i, DateV(r.x[1], r.x[2], r.x[3])) :
                  r \in {unpack_u32s(st, i + 1, 3)}})
        [] value_type = 8 ->
             The({IF r.err # "" THEN Read(r.err, r.i, NoneV)
                  ELSE Read("", r.i, TimeV(r.x[1], r.x[2], r.x[3])) :
                  r \in {unpack_u32s(st, i + 1, 3)}})
        [] value_type = 9 ->
             The({IF r.err # "" THEN Read(r.err, r.i, NoneV)
                  ELSE Read("", r.i, DateTimeV(r.x[1], r.x[2], r.x[3], r.x[4], r.x[5], r.x[6])) :
                  r \in {unpack_u32s(st, i + 1, 6)}})
        [] value_type = 10 ->
             LET n == unpack(st, i + 1, "u32") IN
             IF n.err # "" THEN Read(n.err, n.i, NoneV)
             ELSE The({Read(items.err, items.i, ListV(items.x)) :
                       items \in {decode_values(st, n.i, n.x)}})
        [] value_type = 11 ->
             LET name == decode_string(st, i + 1)
                 values == decode_json(st, name.i)
             IN IF name.err # "" THEN Read(name.err, name.i, NoneV)
                ELSE Read(values.err, values.i, EnumV(name.x.s, values.x))
        [] OTHER -> Read("ValueError", i + 1, NoneV)

\* the loop over the enums of the stream, k enums left
RECURSIVE DecodeEnums(_, _, _, _)
DecodeEnums(st, i, k, d) ==
    IF k = 0 THEN Read("", i, d)
    ELSE LET name == decode_string(st, i)
             values == decode_json(st, name.i)
         IN IF name.err # "" THEN Read(name.err, name.i, d)
            ELSE IF values.err # "" THEN Read(values.err, values.i, d)
            ELSE DecodeEnums(st, values.i, k - 1, add_enum(d, TableEnum(name.x.s, values.x)))

\* python_str_to_type after getattr(__builtins__, name, None) found nothing
\* (in an imported module __builtins__ is a dict, which has no such attribute)
python_str_to_type(name) == IF name \in {"str", "int", "bool"} THEN name ELSE ""

RelationTypes == {"OneToOne", "OneToMany", "ManyToMany"}

\* globals()[field_type](): the field classes that take no argument
PlainFields ==
    {StringField, IntegerField, FloatField, DateField, TimeField, DateTimeField, BooleanField}

\* the field deserialize_from_binary builds after it read the name of the
\* field and the name of its class
DecodeField(st, i, d, field_type) ==
    CASE field_type = "RelationField" ->
           LET to == decode_string(st, i)
               relation_type == decode_string(st, to.i)
           IN IF to.err # "" THEN Read(to.err, to.i, StringField)
              ELSE IF relation_type.err # "" THEN Read(relation_type.err, relation_type.i, StringField)
              ELSE IF relation_type.x.s \notin RelationTypes
              THEN Read("ValueError", relation_type.i, StringField)
              ELSE Read("", relation_type.i, RelationField(to.x.s, FALSE, relation_type.x.s))
      [] field_type = "ArrayField" ->
           LET item_type_name == decode_string(st, i)
               max_length == unpack(st, item_type_name.i, "u32")
           IN IF item_type_name.err # "" THEN Read(item_type_name.err, item_type_name.i, StringField)
              ELSE IF python_str_to_type(item_type_name.x.s) = ""
              THEN Read("ValueError", item_type_name.i, StringField)
              ELSE IF max_length.err # "" THEN Read(max_length.err, max_length.i, StringField)
              ELSE Read("", max_length.i,
                        ArrayField(python_str_to_type(item_type_name.x.s),
                                   IF max_length.x > 0 THEN IntV(max_length.x) ELSE NoneV))
      [] field_type = "ForeignKeyField" ->
           LET to == decode_string(st, i) IN
           Read(to.err, to.i, ForeignKeyField(to.x.s, FALSE))
      [] field_type = "ManyToManyField" ->
           LET to == decode_string(st, i) IN
           Read(to.err, to.i, ManyToManyField(to.x.s, FALSE))
      [] field_type = "EnumField" ->
           LET enum_name == decode_string(st, i) IN
           Read(enum_name.err, enum_name.i,
                EnumField(IF enum_name.x.s \in Names(d.enums)
                          THEN DictGet(d.enums, enum_name.x.s) ELSE NoEnum))
      [] OTHER ->
           IF \E f \in PlainFields : f.cls = field_type
           THEN Read("", i, CHOOSE f \in PlainFields : f.cls = field_type)
           ELSE Read("KeyError", i, StringField)

\* the loop over the fields of one table of the stream, k fields left
RECURSIVE DecodeFields(_, _, _, _, _)
DecodeFields(st, i, k, d, fields) ==
    IF k = 0 THEN Read("", i, fields)
    ELSE The({
        IF field_name.err # "" THEN Read(field_name.err, field_name.i, fields)
        ELSE The({
            IF field_type.err # "" THEN Read(field_type.err, field_type.i, fields)
            ELSE The({
                IF f.err # "" THEN Read(f.err, f.i, fields)
                ELSE The({DecodeFields(st, f.i, k - 1, d, set) :
                          set \in {DictSet(fields, FieldDecl(field_name.x.s, f.x))}})
                : f \in {DecodeField(st, field_type.i, d, field_type.x.s)}})
            : field_type \in {decode_string(st, field_name.i)}})
        : field_name \in {decode_string(st, i)}})

\* the loop over the tables of the stream, k tables left
RECURSIVE DecodeTables(_, _, _, _)
DecodeTables(st, i, k, d) ==
    IF k = 0 THEN Read("", i, d)
    ELSE The({
        IF table_name.err # "" THEN Read(table_name.err, table_name.i, d)
        ELSE The({
            IF num_fields.err # "" THEN Read(num_fields.err, num_fields.i, d)
            ELSE The({
                IF fields.err # "" THEN Read(fields.err, fields.i, d)
                ELSE The({DecodeTables(st, fields.i, k - 1, added) :
                          added \in {add_table(d, ClassDef(table_name.x.s, fields.x))}})
                : fields \in {DecodeFields(st, num_fields.i, num_fields.x, d, <<>>)}})
            : num_fields \in {unpack(st, table_name.i, "u32")}})
        : table_name \in {decode_string(st, i)}})

\* what the Data loop does to a decoded value before it keeps it, by the
\* class of the field: a date under a DateTimeField is combined with
\* midnight, a ForeignKey value is unpacked into (table, id) and looked up,
\* each key of a ManyToMany value is looked up in the table the field names
ResolveValue(d, field, value) ==
    IF field.cls = "DateTimeField" /\ IsInstance(value, "date")
    THEN Ok(DateTimeV(value.d[1], value.d[2], value.d[3], 0, 0, 0))
    ELSE IF field.cls = "ForeignKeyField"
    THEN IF value.k # "tuple" THEN Raise("TypeError")
         ELSE LET g == get(d, value.s, <<Criterion("id", IntV(value.i))>>) IN
              IF g.err # "" THEN Raise(g.err) ELSE Ok(ReturnedValue(g))
    ELSE IF field.cls = "ManyToManyField"
    THEN IF value.k # "list" THEN Raise("TypeError")
         ELSE LET got == [n \in 1..Len(value.e) |->
                             get(d, field.to, <<Criterion("id", value.e[n])>>)]
                  bad == {n \in 1..Len(value.e) : got[n].err # ""}
              IN IF bad # {} THEN Raise(got[CHOOSE n \in bad : \A m \in bad : n <= m].err)
                 ELSE Ok(ListV([n \in 1..Len(value.e) |-> ReturnedValue(got[n])]))
    ELSE Ok(value)

\* the loop over the fields of one record of the stream, k fields left:
\* record_data maps the field names read so far to their values
RECURSIVE DecodeRecordData(_, _, _, _, _, _)
DecodeRecordData(st, i, k, d, table_name, record_data) ==
    IF k = 0 THEN Read("", i, record_data)
    ELSE The({
        IF field_name.err # "" THEN Read(field_name.err, field_name.i, record_data)
        ELSE The({
            IF value.err # "" THEN Read(value.err, value.i, record_data)
            ELSE IF table_name \notin Names(d.tables)
            THEN Read("KeyError", value.i, record_data)
            ELSE IF field_name.x.s \notin FieldNames(DictGet(d.tables, table_name))
            THEN Read("KeyError", value.i, record_data)
            ELSE The({
                The({
                    IF v.err # "" THEN Read(v.err, value.i, record_data)
                    ELSE The({DecodeRecordData(st, value.i, k - 1, d, table_name, set) :
                              set \in {(field_name.x.s :> v.v) @@ record_data}})
                    : v \in {ResolveValue(d, cls.fields[FieldIndex(cls, field_name.x.s)].fld,
                                          value.x)}})
                : cls \in {DictGet(d.tables, table_name)}})
            : value \in {decode_value(st, field_name.i)}})
        : field_name \in {decode_string(st, i)}})

\* the records loop, had it put each record before those already added
RECURSIVE DecodeRecords_Prepend(_, _, _, _, _)
DecodeRecords_Prepend(st, i, k, d, table_name) ==
    IF k = 0 THEN Read("", i, d)
    ELSE LET num_fields == unpack(st, i, "u32") IN
         IF num_fields.err # "" THEN Read(num_fields.err, num_fields.i, d)
         ELSE LET record_data ==
                      DecodeRecordData(st, num_fields.i, num_fields.x, d, table_name, EmptyDict)
              IN IF record_data.err # "" THEN Read(record_data.err, record_data.i, d)
                 ELSE IF table_name \notin Names(d.tables) THEN Read("KeyError", record_data.i, d)
                 ELSE LET made == New(DictGet(d.tables, table_name), record_data.x) IN
                      IF made.err # "" THEN Read(made.err, record_data.i, d)
                      ELSE LET added == add_record(d, table_name, made.rec) IN
                           IF added.err # "" THEN Read(added.err, record_data.i, added.db)
                           ELSE DecodeRecords_Prepend(
                                    st, record_data.i, k - 1,
                                    [added.db EXCEPT !.data[table_name] =
                                         <<made.rec>> \o d.data[table_name]],
                                    table_name)

\* the loop over the records of one table of the stream, k records left
RECURSIVE DecodeRecords(_, _, _, _, _)
DecodeRecords(st, i, k, d, table_name) ==
    IF k = 0 THEN Read("", i, d)
    ELSE The({
        IF num_fields.err # "" THEN Read(num_fields.err, num_fields.i, d)
        ELSE The({
            IF record_data.err # "" THEN Read(record_data.err, record_data.i, d)
            ELSE IF table_name \notin Names(d.tables) THEN Read("KeyError", record_data.i, d)
            ELSE The({
                IF made.err # "" THEN Read(made.err, record_data.i, d)
                ELSE The({
                    IF added.err # "" THEN Read(added.err, record_data.i, added.db)
                    ELSE DecodeRecords(st, record_data.i, k - 1, added.db, table_name)
                    : added \in {add_record(d, table_name, made.rec)}})
                : made \in {New(DictGet(d.tables, table_name), record_data.x)}})
            : record_data \in {DecodeRecordData(st, num_fields.i, num_fields.x, d,
                                                table_name, EmptyDict)}})
        : num_fields \in {unpack(st, i, "u32")}})

\* the loop over the tables of the Data section, k tables left
RECURSIVE DecodeData(_, _, _, _)
DecodeData(st, i, k, d) ==
    IF k = 0 THEN Read("", i, d)
    ELSE LET table_name == decode_string(st, i)
             num_records == unpack(st, table_name.i, "u32")
         IN IF table_name.err # "" THEN Read(table_name.err, table_name.i, d)
            ELSE IF num_records.err # "" THEN Read(num_records.err, num_records.i, d)
            ELSE LET records == DecodeRecords(st, num_records.i, num_records.x, d,
                                              table_name.x.s)
                 IN IF records.err # "" THEN records
                    ELSE DecodeData(st, records.i, k - 1, records.x)

\* Database.deserialize_from_binary: the error raised, else the database
\* returned (x)
deserialize_from_binary(st) ==
    LET num_enums == unpack(st, 1, "u32") IN
    IF num_enums.err # "" THEN Read(num_enums.err, 1, NewDatabase)
    ELSE LET with_enums == DecodeEnums(st, num_enums.i, num_enums.x, NewDatabase)
             num_tables == unpack(st, with_enums.i, "u32")
         IN IF with_enums.err # "" THEN with_enums
            ELSE IF num_tables.err # "" THEN Read(num_tables.err, num_tables.i, with_enums.x)
            ELSE LET with_tables == DecodeTables(st, num_tables.i, num_tables.x, with_enums.x)
                     num_data_tables == unpack(st, with_tables.i, "u32")
                 IN IF with_tables.err # "" THEN with_tables
                    ELSE IF num_data_tables.err # ""
                    THEN Read(num_data_tables.err, num_data_tables.i, with_tables.x)
                    ELSE DecodeData(st, num_data_tables.i, num_data_tables.x, with_tables.x)

-----------------------------------------------------------------------------
(* The scripts: what they define and the records they build.               *)

Script(classes, enum_defs) == [classes |-> classes, enums |-> enum_defs]

Scripts ==
    {Script({User, Post}, {}), Script({User, Group}, {}),
     Script({User, House}, {}), Script({Person}, {Title})}

User1 == ("id" :> IntV(1)) @@ ("name" :> StrV("A"))
User2 == ("id" :> IntV(2)) @@ ("name" :> StrV("A"))
UserObj(kwargs) == AsValue(New(User, kwargs).rec)

\* the keyword arguments the scripts construct records with
Kwargs(cls) ==
    CASE cls = User -> {User1, User2}
      [] cls = Post -> {("id" :> IntV(1)) @@ ("creator" :> UserObj(User1)),
                        ("id" :> IntV(2))}
      [] cls = Group -> {("id" :> IntV(1)) @@ ("members" :> ListV(<<UserObj(User1), UserObj(User2)>>)),
                         ("id" :> IntV(1)) @@ ("members" :> ListV(<<IntV(1)>>))}
      [] cls = House -> {("id" :> IntV(1)) @@ ("owner" :> UserObj(User1)),
                         ("id" :> IntV(2))}
      [] cls = Person -> {("name" :> StrV("A")) @@ ("title" :> IntV(1)),
                          ("name" :> StrV("B")),
                          ("name" :> StrV("A")) @@ ("title" :> IntV(4))}
      [] cls = Member -> {("id" :> IntV(1)) @@ ("join_date" :> DateV(2024, 9, 25))
                             @@ ("last_login" :> DateTimeV(2024, 9, 25, 14, 35, 0))
                             @@ ("num_list" :> ListV(<<IntV(1)>>)),
                          ("id" :> IntV(2)),
                          ("id" :> IntV(1)) @@ ("join_date" :> StrV("2024-09-25"))}
      [] OTHER -> {}

\* the table names the scripts pass: those of their classes
TableNames == {c.name : c \in program.classes}

-----------------------------------------------------------------------------
(* The state machine: one Database and the calls a script makes on it.     *)

db == [tables |-> tables, data |-> data, relations |-> relations, enums |-> enums]

RECURSIVE SumLen(_, _)
SumLen(f, S) ==
    IF S = {} THEN 0
    ELSE LET x == CHOOSE y \in S : TRUE IN Len(f[x]) + SumLen(f, S \ {x})
RecordCount == SumLen(data, DOMAIN data)

\* what a call leaves in `last`: the call, the table it names, whether that
\* table was registered and how many records it held when the call was
\* made, and the error the call raised ("" when it returned)
Call(op, name, err) ==
    [op |-> op, name |-> name, err |-> err,
     known |-> name \in DOMAIN data,
     before |-> IF name \in DOMAIN data THEN Len(data[name]) ELSE 0]

Set(d) ==
    /\ tables' = d.tables
    /\ data' = d.data
    /\ relations' = d.relations
    /\ enums' = d.enums

\* no Table instance is held, no function was called on its own
NoRecord == Record(ClassDef("", <<>>), <<>>)
NoCheck == [op |-> "", fld |-> Field("", ""), declared |-> {}, value |-> NoneV, result |-> Ok(NoneV)]

\* a run of deserialize_from_binary: the bytes it was given (binary_data),
\* its index into them, the section it is in ("" before its first read,
\* then "enums", "tables", "data", and "returned" or "raised" at its end),
\* the iterations its section loop has left, the table of the Data section
\* it is in with the records that table has left, the error it raised, and
\* the Database the bytes were saved from
Decoder(binary_data, index, section, left, table_name, num_records, err, saved) ==
    [binary_data |-> binary_data, index |-> index, section |-> section, left |-> left,
     table_name |-> table_name, num_records |-> num_records, err |-> err, saved |-> saved]

\* no run of deserialize_from_binary
NoDecoder == Decoder(<<>>, 1, "", 0, "", 0, "", NewDatabase)

Init ==
    /\ record = NoRecord
    /\ checked = NoCheck
    /\ decoder = NoDecoder
    /\ program \in Scripts
    /\ tables = NewDatabase.tables
    /\ data = NewDatabase.data
    /\ relations = NewDatabase.relations
    /\ enums = NewDatabase.enums
    /\ last = [op |-> "init", name |-> "", err |-> "", known |-> FALSE, before |-> 0]

AddTable ==
    \E cls \in program.classes :
        /\ Set(add_table(db, cls))
        /\ last' = Call("add_table", cls.name, "")
        /\ UNCHANGED <<program, record, checked, decoder>>

AddEnum ==
    \E enum \in program.enums :
        /\ Set(add_enum(db, enum))
        /\ last' = Call("add_enum", enum.name, "")
        /\ UNCHANGED <<program, record, checked, decoder>>

AddRecord ==
    \E table_name \in TableNames, cls \in program.classes :
        \E kwargs \in Kwargs(cls) :
            \E made \in {New(cls, kwargs)} :
                \E r \in {add_record(db, table_name, made.rec)} :
                    /\ made.err = ""
                    /\ RecordCount < MaxRecords
                    /\ Set(r.db)
                    /\ last' = Call("add_record", table_name, r.err)
                    /\ UNCHANGED <<program, record, checked, decoder>>

Next == AddTable \/ AddEnum \/ AddRecord

Spec == Init /\ [][Next]_vars

-----------------------------------------------------------------------------
(* Database.get: the collapse of its result.                               *)

\* the criteria mappings the model queries with, in keyword order
CriteriaValues == {IntV(1), IntV(2), StrV("A"), StrV("B")}
CriteriaNames == {"id", "name"}
Criteria1 == {<<Criterion(f, v)>> : f \in CriteriaNames, v \in CriteriaValues}
CriteriaSet ==
    {<<>>} \cup Criteria1 \cup {c1 \o c2 : c1 \in Criteria1, c2 \in Criteria1}

\* the positions, in table t, of the records that match every criterion
MatchingPositions(t, criteria) ==
    {n \in 1..Len(data[t]) :
        \A j \in 1..Len(criteria) :
            /\ HasAttr(data[t][n], criteria[j].name)
            /\ PyEq(GetAttr(data[t][n], criteria[j].name), criteria[j].value)}

\* the criteria name fields that every record held by table t has
Queryable(t, criteria) ==
    \A n \in 1..Len(data[t]), j \in 1..Len(criteria) : HasAttr(data[t][n], criteria[j].name)

\* s lists exactly the records of table t at the positions P, in the order
\* of the positions
ListsInOrder(s, t, P) ==
    /\ Len(s) = Cardinality(P)
    /\ \A n \in 1..Len(s) :
          \E p \in P : /\ Cardinality({q \in P : q < p}) = n - 1
                       /\ s[n] = data[t][p]

-----------------------------------------------------------------------------
(* Database.add_record and Database.add_table.                             *)

ManyToManyDecls(cls) ==
    {n \in 1..Len(cls.fields) : cls.fields[n].fld.cls = "ManyToManyField"}

\* the positions, in table t, of the records with owner key id that carry a
\* ManyToMany field to target
Owners(t, id, target) ==
    {m \in 1..Len(data[t]) :
        /\ HasAttr(data[t][m], "id")
        /\ GetAttr(data[t][m], "id") = id
        /\ target \in ManyToManyTargets(data[t][m].cls)}

\* the keys the record holds in its ManyToMany field to target
TargetKeys(rec, target) ==
    rec.vals[CHOOSE n \in ManyToManyDecls(rec.cls) : rec.cls.fields[n].fld.to = target].e

\* C4: the relation entry of an owner key under "{Owner}_{Target}" is
\* exactly the list of target keys of the record inserted last with that
\* owner key: an earlier entry is replaced, never appended to.
C4_ReplaceOnReinsert ==
    \A n \in 1..Len(tables) :
        \A target \in ManyToManyTargets(tables[n]) :
            LET t == tables[n].name
                entries == relations[RelationTableName(t, target)]
            IN \A id \in DOMAIN entries :
                   LET own == Owners(t, id, target)
                   IN /\ own # {}
                      /\ entries[id] =
                            TargetKeys(data[t][CHOOSE m \in own : \A q \in own : q <= m], target)

\* C6: add_record on a table name that is not registered raises the
\* unknown-table error and changes nothing of the database; on a registered
\* name it appends one record of the script at the end of that table's
\* sequence and leaves every other table's sequence as it was.
C6_AddRecordStep ==
    (last'.op = "add_record") =>
        IF last'.name \notin Names(tables)
        THEN /\ last'.err = "ValueError"
             /\ UNCHANGED <<tables, data, relations, enums>>
        ELSE /\ tables' = tables
             /\ DOMAIN data' = DOMAIN data
             /\ \A t \in DOMAIN data : t # last'.name => data'[t] = data[t]
             /\ Len(data'[last'.name]) = Len(data[last'.name]) + 1
             /\ SubSeq(data'[last'.name], 1, Len(data[last'.name])) = data[last'.name]
             /\ \E cls \in program.classes : \E kwargs \in Kwargs(cls) :
                    /\ New(cls, kwargs).err = ""
                    /\ data'[last'.name][Len(data'[last'.name])] = New(cls, kwargs).rec

C6_AddRecord == [][C6_AddRecordStep]_vars

\* add_record was refused on an unregistered name while the database held
\* records, and add_record appended to a table that already held a record
C6_Witness ==
    /\ last.op = "add_record"
    /\ ~last.known
    /\ last.err = "ValueError"
    /\ \E t \in DOMAIN data : Len(data[t]) >= 2

\* C7: add_table on a name that is already registered is rejected with an
\* error and the records stored for that table are as before: add_table
\* never shortens a table's record sequence.
C7_DuplicateRegistrationRejected ==
    (last.op = "add_table" /\ last.known) =>
        /\ last.err # ""
        /\ Len(data[last.name]) = last.before

\* C5: get_related_table_record on a registered target table returns, in
\* the order of the relation entry, exactly the records of the target
\* table whose primary key is in the entry of the owner key: a key without
\* a record is left out (no None in its place, no error), and an owner key
\* without an entry gives the empty list.
OwnerKeys == {IntV(1), IntV(2)}

RECURSIVE RecordsWithKeys(_, _)
RecordsWithKeys(records, keys) ==
    IF keys = <<>> THEN <<>>
    ELSE LET found == {n \in 1..Len(records) :
                          HasAttr(records[n], "id") /\ GetAttr(records[n], "id") = Head(keys)}
         IN [n \in 1..Cardinality(found) |->
                AsValue(records[CHOOSE p \in found : Cardinality({q \in found : q < p}) = n - 1])]
            \o RecordsWithKeys(records, Tail(keys))

C5_RelatedOmitsMissing ==
    \A n \in 1..Len(tables) :
        \A target \in ManyToManyTargets(tables[n]) \cap Names(tables) :
            \A key \in OwnerKeys :
                LET owner == tables[n].name
                    entries == relations[RelationTableName(owner, target)]
                    keys == IF key \in DOMAIN entries THEN entries[key] ELSE <<>>
                    r == get_related_table_record(db, owner, key, target)
                IN /\ r.err = ""
                   /\ r.v = RecordsWithKeys(data[target], keys)

-----------------------------------------------------------------------------
(* The round trip deserialize_from_binary(serialize_to_binary(db)).        *)

Stream == serialize_to_binary(db)
Decoded == deserialize_from_binary(Stream)

\* every record held under a table is an instance of the table's class
WellTyped ==
    \A n \in 1..Len(tables) :
        \A m \in 1..Len(data[tables[n].name]) : data[tables[n].name][m].cls = tables[n]

ReferenceFields == {"RelationField", "ForeignKeyField"}

\* the positions of the tables that table n references by a Relation or a
\* ForeignKey field
Targets(n) ==
    {m \in 1..Len(tables) :
        \E f \in 1..Len(tables[n].fields) :
            /\ tables[n].fields[f].fld.cls \in ReferenceFields
            /\ tables[n].fields[f].fld.to = tables[m].name}

\* the tables a table references are registered, and before it
TargetsPrecede ==
    \A n \in 1..Len(tables) :
        \A f \in 1..Len(tables[n].fields) :
            tables[n].fields[f].fld.cls \in ReferenceFields =>
                \E m \in 1..(n - 1) : tables[m].name = tables[n].fields[f].fld.to

\* the target of every ManyToMany field is registered before the table of
\* the field, and every key a record holds in the field is the key of one
\* record of the target
MembersResolve ==
    \A n \in 1..Len(tables) :
        \A f \in ManyToManyDecls(tables[n]) :
            /\ \E m \in 1..(n - 1) : tables[m].name = tables[n].fields[f].fld.to
            /\ \A r \in 1..Len(data[tables[n].name]) :
                  LET keys == data[tables[n].name][r].vals[f].e
                  IN \A k \in 1..Len(keys) :
                         get(db, tables[n].fields[f].fld.to,
                             <<Criterion("id", keys[k])>>).shape = "one"

\* the enum of every EnumField is registered
EnumsRegistered ==
    \A n \in 1..Len(tables) :
        \A f \in 1..Len(tables[n].fields) :
            tables[n].fields[f].fld.cls = "EnumField" =>
                tables[n].fields[f].fld.enum.name \in Names(enums)

\* C2: for a database whose Relation/ForeignKey target tables precede the
\* referencing tables (whose enums are registered and whose many-to-many
\* keys all have their record), the round trip succeeds and every table
\* holds the same number of records, each with field-wise equal values.
C2_RoundTripValues ==
    (WellTyped /\ TargetsPrecede /\ MembersResolve /\ EnumsRegistered) =>
        /\ Decoded.err = ""
        /\ \A t \in DOMAIN data :
              /\ t \in DOMAIN Decoded.x.data
              /\ Len(Decoded.x.data[t]) = Len(data[t])
              /\ \A n \in 1..Len(data[t]) : Decoded.x.data[t][n].vals = data[t][n].vals

\* the attributes of a field that the claim names
SameField(a, b) ==
    /\ a.cls = b.cls
    /\ a.primary_key = b.primary_key
    /\ a.null = b.null
    /\ a.unique = b.unique
    /\ a.default = b.default
    /\ a.max_length = b.max_length
    /\ a.min_value = b.min_value
    /\ a.max_value = b.max_value
    /\ a.item_type = b.item_type
    /\ a.to = b.to
    /\ a.relation_type = b.relation_type
    /\ a.enum.name = b.enum.name

\* C3: the round trip yields the same table names in the same order and,
\* for every field, the same name, kind and attributes.
C3_RoundTripSchema ==
    Decoded.err = "" =>
        /\ Len(Decoded.x.tables) = Len(tables)
        /\ \A n \in 1..Len(tables) :
              /\ Decoded.x.tables[n].name = tables[n].name
              /\ Len(Decoded.x.tables[n].fields) = Len(tables[n].fields)
              /\ \A f \in 1..Len(tables[n].fields) :
                    /\ Decoded.x.tables[n].fields[f].name = tables[n].fields[f].name
                    /\ SameField(Decoded.x.tables[n].fields[f].fld, tables[n].fields[f].fld)

\* a table that holds a record references, by a Relation or a ForeignKey
\* field, a table that the Data section lists after it
OrderingViolated ==
    \E n \in 1..Len(tables) :
        /\ data[tables[n].name] # <<>>
        /\ \E m \in Targets(n) : m > n

\* C8: when the Data section lists a referencing table before the table
\* its ForeignKey/Relation field targets, deserialize_from_binary fails: it
\* returns no database.
C8_OrderingViolationFails == OrderingViolated => Decoded.err # ""

\* C9: with the target table registered and populated before the
\* referencing table, and every ForeignKey value the key of one target
\* record, decoding succeeds and each decoded ForeignKey value is the key
\* it was, that of a decoded target record.
ForeignKeyDecls(cls) ==
    {f \in 1..Len(cls.fields) : cls.fields[f].fld.cls = "ForeignKeyField"}

KeysResolve(d, cls, rec) ==
    \A f \in ForeignKeyDecls(cls) :
        /\ cls.fields[f].fld.to \in Names(d.tables)
        /\ get(d, cls.fields[f].fld.to, <<Criterion("id", rec.vals[f])>>).shape = "one"

CrossTableCase ==
    /\ WellTyped
    /\ TargetsPrecede
    /\ \E n \in 1..Len(tables) :
          ForeignKeyDecls(tables[n]) # {} /\ data[tables[n].name] # <<>>
    /\ \A n \in 1..Len(tables) :
          \A m \in 1..Len(data[tables[n].name]) :
              KeysResolve(db, tables[n], data[tables[n].name][m])

C9_CrossTableDecode ==
    CrossTableCase =>
        /\ Decoded.err = ""
        /\ \A n \in 1..Len(tables) :
              \A m \in 1..Len(data[tables[n].name]) :
                  /\ Decoded.x.data[tables[n].name][m].vals = data[tables[n].name][m].vals
                  /\ KeysResolve(Decoded.x, tables[n], Decoded.x.data[tables[n].name][m])

\* the values a record holds in its fields that are no relation
OwnValues(rec) ==
    [f \in {g \in 1..Len(rec.cls.fields) :
               rec.cls.fields[g].fld.cls \notin
                   {"RelationField", "ForeignKeyField", "ManyToManyField"}}
       |-> rec.vals[f]]

\* C10: for every table t, all(t) on the decoded database lists the
\* records in the order of all(t) on the database that was encoded.
C10_OrderPreserved ==
    Decoded.err = "" =>
        \A t \in Names(tables) :
            LET before == all(db, t)
                after == all(Decoded.x, t)
            IN /\ before.err = ""
               /\ after.err = ""
               /\ Len(after.records) = Len(before.records)
               /\ \A n \in 1..Len(before.records) :
                     OwnValues(after.records[n]) = OwnValues(before.records[n])

\* a database was decoded that holds, in one table, three records of which
\* the second differs from the first and the third
C10_Witness ==
    /\ Decoded.err = ""
    /\ \E t \in Names(tables) :
          /\ Len(data[t]) = 3
          /\ OwnValues(data[t][1]) # OwnValues(data[t][2])
          /\ OwnValues(data[t][3]) # OwnValues(data[t][2])

-----------------------------------------------------------------------------
(* The many-to-many join after a round trip.                                *)

\* the target table of every ManyToMany field is registered before the
\* table of the field
ManyToManyTargetsPrecede ==
    \A n \in 1..Len(tables) :
        \A f \in ManyToManyDecls(tables[n]) :
            \E m \in 1..(n - 1) : tables[m].name = tables[n].fields[f].fld.to

\* no two records of a table share a primary key
UniqueKeys ==
    \A t \in DOMAIN data :
        \A n, m \in 1..Len(data[t]) :
            (n # m /\ HasAttr(data[t][n], "id") /\ HasAttr(data[t][m], "id")) =>
                GetAttr(data[t][n], "id") # GetAttr(data[t][m], "id")

\* the primary keys of what get_related_table_record returned: the key of
\* a record, the keys of a list of records, None for None
PrimaryKey(v) == IF v.k = "obj" /\ ObjHasId(v) THEN ObjId(v) ELSE v
PrimaryKeys(result) ==
    [n \in 1..Len(result) |->
        IF result[n].k = "list"
        THEN ListV([m \in 1..Len(result[n].e) |-> PrimaryKey(result[n].e[m])])
        ELSE PrimaryKey(result[n])]

SameJoin ==
    \A n \in 1..Len(tables) :
        \A target \in ManyToManyTargets(tables[n]) :
            \A key \in OwnerKeys :
                LET before == get_related_table_record(db, tables[n].name, key, target)
                    after == get_related_table_record(Decoded.x, tables[n].name, key, target)
                IN /\ after.err = before.err
                   /\ PrimaryKeys(after.v) = PrimaryKeys(before.v)

\* C11: when the target table of a ManyToMany field precedes the owner
\* table, the round trip succeeds and get_related_table_record(owner, key,
\* target) on the decoded database returns records with the same primary
\* keys, in the same order, as on the database that was encoded, for every
\* owner key.
C11_JoinSurvives ==
    (WellTyped /\ ManyToManyTargetsPrecede /\ \E n \in 1..Len(tables) : ManyToManyDecls(tables[n]) # {}) =>
        /\ Decoded.err = ""
        /\ SameJoin

-----------------------------------------------------------------------------
(* field.validate called on its own: the fields a script can declare and   *)
(* the values it can pass. A script makes one call.                        *)

\* the bounds an Integer or Float field is declared with are -MaxBound and
\* MaxBound; the numbers passed reach one beyond
MaxBound == 2

Checked(op, fld, declared, value, result) ==
    [op |-> op, fld |-> fld, declared |-> declared, value |-> value, result |-> result]

ListsUpTo(S, n) == UNION {[1..k -> S] : k \in 0..n}

ArrayItems == {IntV(1), StrV("A"), BoolV(TRUE)}
ArrayFields ==
    {ArrayField(t, m) : t \in {"int", "str"}, m \in {NoneV} \cup {IntV(k) : k \in 0..MaxLen}}
ArrayInputs == {ListV(e) : e \in ListsUpTo(ArrayItems, MaxLen + 1)} \cup {NoneV, IntV(1)}

\* IntegerField(**kwargs) and FloatField(**kwargs): kwargs.get('min_value',
\* 0) and kwargs.get('max_value', 2147483647)
KwargsOr(kwargs, name, default) == IF name \in DOMAIN kwargs THEN kwargs[name] ELSE default
NewIntegerField(kwargs) ==
    [IntegerField EXCEPT !.min_value = KwargsOr(kwargs, "min_value", IntV(DefaultIntMin)),
                         !.max_value = KwargsOr(kwargs, "max_value", IntV(DefaultIntMax))]
NewFloatField(kwargs) ==
    [FloatField EXCEPT !.min_value = KwargsOr(kwargs, "min_value", FloatV(DefaultIntMin)),
                       !.max_value = KwargsOr(kwargs, "max_value", FloatV(DefaultIntMax))]

\* the bounds a script declares: none, a minimum, a maximum, or both
BoundKwargs(lo, hi) ==
    {EmptyDict, "min_value" :> lo, "max_value" :> hi,
     ("min_value" :> lo) @@ ("max_value" :> hi)}
Numbers == ((0 - MaxBound - 1)..(MaxBound + 1)) \cup {DefaultIntMax}
NumericInputs ==
    {IntV(n) : n \in Numbers} \cup {FloatV(n) : n \in Numbers} \cup {NoneV, StrV("A")}

TemporalFields == {DateField, TimeField, DateTimeField}
IsoTexts == {"2024-09-25", "14:35:00", "2024-09-25T14:35:00"}
TemporalInputs ==
    {DateV(2024, 9, 25), TimeV(14, 35, 0), DateTimeV(2024, 9, 25, 14, 35, 0), NoneV}
    \cup {StrV(t) : t \in IsoTexts \cup {"yesterday"}}

\* an enum whose values are strings
title_enum ==
    TableEnum("Title", <<EnumEntry("Mr", StrV("mr")), EnumEntry("Mrs", StrV("mrs")),
                         EnumEntry("Dr", StrV("dr"))>>)
EnumFields == {EnumField(Title), EnumField(title_enum)}
EnumInputs == {IntV(n) : n \in 0..4} \cup {StrV("mr"), StrV("dr"), StrV("sir"), NoneV}

ValidateArray ==
    \E fld \in ArrayFields, value \in ArrayInputs :
        \E result \in {Validate(fld, value)} :
            /\ checked.op = ""
            /\ checked' = Checked("validate", fld, {}, value, result)
            /\ UNCHANGED <<program, tables, data, relations, enums, last, record, decoder>>

ValidateInteger ==
    \E kwargs \in BoundKwargs(IntV(0 - MaxBound), IntV(MaxBound)), value \in NumericInputs :
        \E fld \in {NewIntegerField(kwargs)} :
            \E result \in {Validate(fld, value)} :
                /\ checked.op = ""
                /\ checked' = Checked("validate", fld, DOMAIN kwargs, value, result)
                /\ UNCHANGED <<program, tables, data, relations, enums, last, record, decoder>>

ValidateFloat ==
    \E kwargs \in BoundKwargs(FloatV(0 - MaxBound), FloatV(MaxBound)), value \in NumericInputs :
        \E fld \in {NewFloatField(kwargs)} :
            \E result \in {Validate(fld, value)} :
                /\ checked.op = ""
                /\ checked' = Checked("validate", fld, DOMAIN kwargs, value, result)
                /\ UNCHANGED <<program, tables, data, relations, enums, last, record, decoder>>

ValidateTemporal ==
    \E fld \in TemporalFields, value \in TemporalInputs :
        \E result \in {Validate(fld, value)} :
            /\ checked.op = ""
            /\ checked' = Checked("validate", fld, {}, value, result)
            /\ UNCHANGED <<program, tables, data, relations, enums, last, record, decoder>>

ValidateEnum ==
    \E fld \in EnumFields, value \in EnumInputs :
        \E result \in {Validate(fld, value)} :
            /\ checked.op = ""
            /\ checked' = Checked("validate", fld, {}, value, result)
            /\ UNCHANGED <<program, tables, data, relations, enums, last, record, decoder>>

\* the values encode_value is given
CodecValues ==
    {BoolV(TRUE), BoolV(FALSE), IntV(0), IntV(1), FloatV(1), StrV("A"), NoneV,
     DateV(2024, 9, 25), TimeV(14, 35, 0), DateTimeV(2024, 9, 25, 14, 35, 0),
     ListV(<<IntV(1), BoolV(TRUE)>>)}

\* decode_value on the bytes encode_value wrote for a value
EncodeValue ==
    \E value \in CodecValues :
        \E stream \in {encode_value(value)} :
            \E r \in {decode_value(stream, 1)} :
                /\ checked.op = ""
                /\ checked' = Checked("encode_value", Field("", ""), {}, value,
                                      [err |-> r.err, v |-> r.x])
                /\ UNCHANGED <<program, tables, data, relations, enums, last, record, decoder>>

InitIdle ==
    /\ program = Script({}, {})
    /\ tables = NewDatabase.tables
    /\ data = NewDatabase.data
    /\ relations = NewDatabase.relations
    /\ enums = NewDatabase.enums
    /\ last = [op |-> "init", name |-> "", err |-> "", known |-> FALSE, before |-> 0]
    /\ record = NoRecord
    /\ checked = NoCheck
    /\ decoder = NoDecoder

NextFields ==
    \/ ValidateArray \/ ValidateInteger \/ ValidateFloat \/ ValidateTemporal \/ ValidateEnum
    \/ EncodeValue

SpecFields == InitIdle /\ [][NextFields]_vars

-----------------------------------------------------------------------------
(* ArrayField.validate.                                                    *)

ArrayChecked ==
    checked.op = "validate" /\ checked.fld.cls = "ArrayField" /\ checked.value.k = "list"

\* the list is no longer than the declared max_length, when one is declared
Fits(fld, v) == IsNone(fld.max_length) \/ Len(v.e) <= fld.max_length.i
\* every element is an instance of the declared item type
ItemsTyped(fld, v) == \A n \in 1..Len(v.e) : IsInstance(v.e[n], fld.item_type)

\* C12: ArrayField.validate accepts a list, and returns it unchanged, if
\* and only if its length is at most the declared max_length (when one is
\* set) and every element is of the declared item type; a list one longer
\* than max_length is rejected with the length error (ValueError) and a
\* list with an element of another type is rejected.
C12_ArrayBounds ==
    ArrayChecked =>
        /\ checked.result.err = "" <=>
               (Fits(checked.fld, checked.value) /\ ItemsTyped(checked.fld, checked.value))
        /\ checked.result.err = "" => checked.result.v = checked.value
        /\ (~IsNone(checked.fld.max_length)
            /\ Len(checked.value.e) = checked.fld.max_length.i + 1) =>
               checked.result.err = "ValueError"
        /\ ~ItemsTyped(checked.fld, checked.value) => checked.result.err # ""
        /\ (Fits(checked.fld, checked.value) /\ ~ItemsTyped(checked.fld, checked.value)) =>
               checked.result.err = "TypeError"

\* a list of MaxLen + 1 integers was passed to an ArrayField of integers
\* declared with max_length MaxLen, and was rejected
C12_Witness ==
    /\ ArrayChecked
    /\ checked.fld = ArrayField("int", IntV(MaxLen))
    /\ Len(checked.value.e) = MaxLen + 1
    /\ ItemsTyped(checked.fld, checked.value)
    /\ checked.result.err = "ValueError"

-----------------------------------------------------------------------------
(* EnumField.validate.                                                     *)

EnumChecked ==
    checked.op = "validate" /\ checked.fld.cls = "EnumField" /\ ~IsNone(checked.value)

\* C13: for an enum whose values are integers or strings, EnumField.validate
\* accepts a value that is not None if and only if it is one of the values
\* the enum declares.
C13_EnumMembership ==
    EnumChecked =>
        (checked.result.err = "" <=> checked.value \in EnumValues(checked.fld.enum))

-----------------------------------------------------------------------------
(* DateField.validate, TimeField.validate and DateTimeField.validate.      *)

TemporalChecked ==
    checked.op = "validate" /\ checked.fld \in TemporalFields /\ ~IsNone(checked.value)

\* C14: a Date, Time or DateTime field returns a value of its type
\* unchanged, returns the parsed value for a text in ISO format, and fails
\* with the format error (ValueError) for any other text.
C14_IsoTextAccepted ==
    TemporalChecked =>
        /\ IsInstance(checked.value, checked.fld.field_type) =>
               checked.result = Ok(checked.value)
        /\ checked.value.k = "str" =>
               checked.result = FromIsoformat(checked.fld.field_type, checked.value.s)

-----------------------------------------------------------------------------
(* IntegerField.validate and FloatField.validate.                          *)

NumericChecked ==
    /\ checked.op = "validate"
    /\ checked.fld.cls \in {"IntegerField", "FloatField"}
    /\ checked.value.k = checked.fld.field_type

\* the value lies outside a bound that the declaration of the field gave
OutsideDeclared ==
    \/ "min_value" \in checked.declared /\ checked.value.i < checked.fld.min_value.i
    \/ "max_value" \in checked.declared /\ checked.value.i > checked.fld.max_value.i

\* C15: an Integer or Float field rejects a value of its type only when a
\* bound was declared and the value lies outside it; a value equal to a
\* bound is accepted, and a field declared without bounds accepts every
\* value of its type, negative numbers included.
C15_NumericRange ==
    NumericChecked =>
        /\ checked.result.err # "" <=> OutsideDeclared
        /\ checked.result.err = "" => checked.result.v = checked.value

-----------------------------------------------------------------------------
(* Truncated streams.                                                      *)

\* the stream cut after its first k units. A cut inside a number leaves
\* struct.unpack too few bytes, as the cut before the number does; a cut
\* inside the bytes of a text leaves a shorter text, which for a text of
\* one byte is the empty text that the cut before the bytes leaves.
Truncated(st, k) == SubSeq(st, 1, k)

\* C16: deserialize_from_binary fails on every proper prefix of a stream
\* that serialize_to_binary produced; it never returns a database.
C16_TruncationFatal ==
    \A k \in 0..(Len(Stream) - 1) : deserialize_from_binary(Truncated(Stream, k)).err # ""

-----------------------------------------------------------------------------
(* The records a table holds.                                              *)

\* the names of the fields of a class, in the order of _fields
FieldOrder(cls) == [n \in 1..Len(cls.fields) |-> cls.fields[n].name]

\* C17: every record held in the sequence of table t has exactly the
\* fields t declares: add_record never stores under t a record built from
\* another table definition.
C17_RecordsMatchTable ==
    \A n \in 1..Len(tables) :
        \A m \in 1..Len(data[tables[n].name]) :
            /\ data[tables[n].name][m].cls.name = tables[n].name
            /\ FieldOrder(data[tables[n].name][m].cls) = FieldOrder(tables[n])

-----------------------------------------------------------------------------
(* A script that builds one Table instance and assigns to its fields.      *)

\* the values a script assigns to a field; user(n) is the instance
\* User(id=n, name="A")
user(n) == ObjV("User", <<IntV(n), StrV("A")>>)
AssignValues ==
    {NoneV, IntV(0 - 1), IntV(1), IntV(2), IntV(4), StrV("A"), StrV("B"), StrV("2024-09-25"),
     BoolV(TRUE), DateV(2024, 9, 25), user(1), user(2),
     ListV(<<>>), ListV(<<IntV(1)>>), ListV(<<StrV("A")>>), ListV(<<user(1), user(2)>>),
     ListV([n \in 1..(MaxLen + 1) |-> IntV(n)])}

\* record = cls(**kwargs): the script holds the new instance, or what it
\* held before when Table.__init__ raised
Construct ==
    \E cls \in program.classes :
        \E kwargs \in Kwargs(cls) :
            \E made \in {New(cls, kwargs)} :
                /\ record' = IF made.err = "" THEN made.rec ELSE record
                /\ last' = Call("__init__", cls.name, made.err)
                /\ UNCHANGED <<program, tables, data, relations, enums, checked, decoder>>

\* record.key = value, for a declared field: Table.__setattr__
Assign ==
    \E n \in 1..Len(record.cls.fields), value \in AssignValues :
        \E field \in {record.cls.fields[n]} :
            \E r \in {SetAttr(field.fld, value)} :
                /\ record' = IF r.err = "" THEN [record EXCEPT !.vals[n] = r.v] ELSE record
                /\ last' = Call("__setattr__", field.name, r.err)
                /\ UNCHANGED <<program, tables, data, relations, enums, checked, decoder>>

InitRecords ==
    /\ program = Script(Classes, {Title})
    /\ tables = NewDatabase.tables
    /\ data = NewDatabase.data
    /\ relations = NewDatabase.relations
    /\ enums = NewDatabase.enums
    /\ last = [op |-> "init", name |-> "", err |-> "", known |-> FALSE, before |-> 0]
    /\ record = NoRecord
    /\ checked = NoCheck
    /\ decoder = NoDecoder

NextRecords == Construct \/ Assign

SpecRecords == InitRecords /\ [][NextRecords]_vars

-----------------------------------------------------------------------------
(* Validation on construction and on assignment.                           *)

\* every declared field of the instance holds a value its field accepts
FieldsValid ==
    record # NoRecord =>
        \A n \in 1..Len(record.cls.fields) :
            Validate(record.cls.fields[n].fld, record.vals[n]).err = ""

\* an assignment that raised left the instance as it was
RejectedAssignStep ==
    (last'.op = "__setattr__" /\ last'.err # "") => record' = record

\* C18: after any sequence of constructions and field assignments every
\* declared field of the instance holds a value that its field's validate
\* accepts, and an assignment whose value fails validation raises and
\* leaves the previous value in place.
C18_ValidationHolds == [](FieldsValid) /\ [][RejectedAssignStep]_vars

\* an assignment to a field of an instance was rejected
C18_Witness ==
    /\ record # NoRecord
    /\ last.op = "__setattr__"
    /\ last.err \in {"TypeError", "ValueError"}

-----------------------------------------------------------------------------
(* What a relation field holds.                                            *)

RelationFieldClasses == {"RelationField", "ForeignKeyField", "ManyToManyField"}

\* the tags of the stream encode_value writes for a value
TagsOf(v) == {u.n : u \in {w \in {encode_value(v)[n] : n \in 1..Len(encode_value(v))} : w.u = "tag"}}

\* C19: a Relation, ForeignKey or ManyToMany field of an instance never
\* holds a record object, only the primary key (or the list of keys), so
\* encode_value writes no tag 0x06 for it.
C19_KeysOnly ==
    record # NoRecord =>
        \A n \in 1..Len(record.cls.fields) :
            record.cls.fields[n].fld.cls \in RelationFieldClasses =>
                /\ record.vals[n].k # "obj"
                /\ \A m \in 1..Len(record.vals[n].e) : record.vals[n].e[m].k # "obj"
                /\ 6 \notin TagsOf(record.vals[n])

-----------------------------------------------------------------------------
(* The tag of a boolean.                                                   *)

\* C20: encode_value writes a boolean with tag 0x04 and a payload of one
\* byte, so that decode_value gives back the boolean, which a BooleanField
\* accepts.
C20_BooleanTag ==
    (checked.op = "encode_value" /\ checked.value.k = "bool") =>
        /\ encode_value(checked.value) = <<Tag(4), Bool8(checked.value.i)>>
        /\ checked.result = Ok(checked.value)
        /\ Validate(BooleanField, checked.result.v).err = ""

-----------------------------------------------------------------------------
(* Database.deserialize_from_binary, loop iteration by loop iteration, on  *)
(* the bytes serialize_to_binary wrote for a Database a script had built.  *)

\* what a script defines, in the order it registers it
Programs ==
    {[enums |-> <<>>, classes |-> <<Member>>],
     [enums |-> <<>>, classes |-> <<User, Member>>],
     [enums |-> <<>>, classes |-> <<User, Post>>],
     [enums |-> <<>>, classes |-> <<Post, User>>],
     [enums |-> <<>>, classes |-> <<User, Group>>],
     [enums |-> <<Title>>, classes |-> <<User, Person>>]}

\* db.add_enum(e) for each enum of a script, then db.add_table(C) for each
\* of its classes
RECURSIVE AddEnums(_, _, _)
AddEnums(d, enum_defs, n) ==
    IF n > Len(enum_defs) THEN d
    ELSE The({AddEnums(added, enum_defs, n + 1) : added \in {add_enum(d, enum_defs[n])}})

RECURSIVE AddTables(_, _, _)
AddTables(d, classes, n) ==
    IF n > Len(classes) THEN d
    ELSE The({AddTables(added, classes, n + 1) : added \in {add_table(d, classes[n])}})

\* the records a script can construct: C(**kwargs) that does not raise
Constructed(cls) ==
    {made.rec : made \in {m \in {New(cls, kwargs) : kwargs \in Kwargs(cls)} : m.err = ""}}

\* the instances a script holds after those constructions, written out
Instances(cls) ==
    CASE cls = User -> {Record(User, <<IntV(1), StrV("A")>>),
                        Record(User, <<IntV(2), StrV("A")>>)}
      [] cls = Member -> {Record(Member, <<IntV(1), DateV(2024, 9, 25),
                                           DateTimeV(2024, 9, 25, 14, 35, 0),
                                           ListV(<<IntV(1)>>)>>),
                          Record(Member, <<IntV(2), NoneV, NoneV, NoneV>>)}
      [] cls = Post -> {Record(Post, <<IntV(1), IntV(1)>>),
                        Record(Post, <<IntV(2), NoneV>>)}
      [] cls = Group -> {Record(Group, <<IntV(1), ListV(<<IntV(1)>>)>>),
                         Record(Group, <<IntV(1), ListV(<<IntV(1), IntV(2)>>)>>)}
      [] cls = Person -> {Record(Person, <<StrV("A"), IntV(1)>>),
                          Record(Person, <<StrV("B"), NoneV>>)}
      [] OTHER -> {}

\* the instances written out are the records the constructions return
InstancesConstructed ==
    \A p \in Programs : \A n \in 1..Len(p.classes) :
        Instances(p.classes[n]) = Constructed(p.classes[n])

\* db.add_record(type(r).__name__, r) for each record of a list
RECURSIVE AddRecords(_, _, _)
AddRecords(d, records, n) ==
    IF n > Len(records) THEN d
    ELSE The({AddRecords(added.db, records, n + 1) :
              added \in {add_record(d, records[n].cls.name, records[n])}})

\* the Databases the scripts save: the enums and classes of one script, and
\* up to MaxRecords of its records
SavedDatabases ==
    UNION {UNION {{AddRecords(registered, records, 1) :
                      records \in UNION {[1..k -> made] : k \in 0..MaxRecords}} :
                  registered \in {AddTables(AddEnums(NewDatabase, p.enums, 1), p.classes, 1)},
                  made \in {UNION {Instances(p.classes[n]) : n \in 1..Len(p.classes)}}} :
           p \in Programs}

\* the run after an exception left it
Raised(err) == [decoder EXCEPT !.section = "raised", !.err = err]

\* index = 0, db = cls(), and the read of num_enums
ReadNumEnums ==
    \E num_enums \in {unpack(decoder.binary_data, decoder.index, "u32")} :
        /\ decoder.section = ""
        /\ decoder.binary_data # <<>>
        /\ decoder' = IF num_enums.err # "" THEN Raised(num_enums.err)
                      ELSE [decoder EXCEPT !.section = "enums", !.index = num_enums.i,
                                           !.left = num_enums.x]
        /\ UNCHANGED <<program, tables, data, relations, enums, last, record, checked>>

\* one iteration of `for _ in range(num_enums)`
DecodeEnum ==
    \E r \in {DecodeEnums(decoder.binary_data, decoder.index, 1, db)} :
        /\ decoder.section = "enums"
        /\ decoder.left > 0
        /\ Set(r.x)
        /\ decoder' = IF r.err # "" THEN Raised(r.err)
                      ELSE [decoder EXCEPT !.index = r.i, !.left = @ - 1]
        /\ UNCHANGED <<program, last, record, checked>>

\* the end of the enums loop and the read of num_tables
ReadNumTables ==
    \E num_tables \in {unpack(decoder.binary_data, decoder.index, "u32")} :
        /\ decoder.section = "enums"
        /\ decoder.left = 0
        /\ decoder' = IF num_tables.err # "" THEN Raised(num_tables.err)
                      ELSE [decoder EXCEPT !.section = "tables", !.index = num_tables.i,
                                           !.left = num_tables.x]
        /\ UNCHANGED <<program, tables, data, relations, enums, last, record, checked>>

\* one iteration of `for _ in range(num_tables)`
DecodeTable ==
    \E r \in {DecodeTables(decoder.binary_data, decoder.index, 1, db)} :
        /\ decoder.section = "tables"
        /\ decoder.left > 0
        /\ Set(r.x)
        /\ decoder' = IF r.err # "" THEN Raised(r.err)
                      ELSE [decoder EXCEPT !.index = r.i, !.left = @ - 1]
        /\ UNCHANGED <<program, last, record, checked>>

\* the end of the tables loop and the read of num_data_tables
ReadNumDataTables ==
    \E num_data_tables \in {unpack(decoder.binary_data, decoder.index, "u32")} :
        /\ decoder.section = "tables"
        /\ decoder.left = 0
        /\ decoder' = IF num_data_tables.err # "" THEN Raised(num_data_tables.err)
                      ELSE [decoder EXCEPT !.section = "data", !.index = num_data_tables.i,
                                           !.left = num_data_tables.x]
        /\ UNCHANGED <<program, tables, data, relations, enums, last, record, checked>>

\* the head of one iteration of `for _ in range(num_data_tables)`: the
\* reads of table_name and num_records
ReadTableName ==
    \E table_name \in {decode_string(decoder.binary_data, decoder.index)} :
        \E num_records \in {unpack(decoder.binary_data, table_name.i, "u32")} :
            /\ decoder.section = "data"
            /\ decoder.num_records = 0
            /\ decoder.left > 0
            /\ decoder' = IF table_name.err # "" THEN Raised(table_name.err)
                          ELSE IF num_records.err # "" THEN Raised(num_records.err)
                          ELSE [decoder EXCEPT !.index = num_records.i, !.left = @ - 1,
                                               !.table_name = table_name.x.s,
                                               !.num_records = num_records.x]
            /\ UNCHANGED <<program, tables, data, relations, enums, last, record, checked>>

\* one iteration of `for _ in range(num_records)`: the record is read,
\* constructed and added
DecodeRecord ==
    \E r \in {DecodeRecords(decoder.binary_data, decoder.index, 1, db, decoder.table_name)} :
        /\ decoder.section = "data"
        /\ decoder.num_records > 0
        /\ Set(r.x)
        /\ decoder' = IF r.err # "" THEN Raised(r.err)
                      ELSE [decoder EXCEPT !.index = r.i, !.num_records = @ - 1]
        /\ UNCHANGED <<program, last, record, checked>>

\* return db
Return ==
    /\ decoder.section = "data"
    /\ decoder.num_records = 0
    /\ decoder.left = 0
    /\ decoder' = [decoder EXCEPT !.section = "returned"]
    /\ UNCHANGED <<program, tables, data, relations, enums, last, record, checked>>

InitDecode ==
    /\ program = Script({}, {})
    /\ tables = NewDatabase.tables
    /\ data = NewDatabase.data
    /\ relations = NewDatabase.relations
    /\ enums = NewDatabase.enums
    /\ last = [op |-> "init", name |-> "", err |-> "", known |-> FALSE, before |-> 0]
    /\ record = NoRecord
    /\ checked = NoCheck
    /\ \E saved \in SavedDatabases :
          decoder = Decoder(serialize_to_binary(saved), 1, "", 0, "", 0, "", saved)

NextDecode ==
    \/ ReadNumEnums \/ DecodeEnum \/ ReadNumTables \/ DecodeTable
    \/ ReadNumDataTables \/ ReadTableName \/ DecodeRecord \/ Return

SpecDecode == InitDecode /\ [][NextDecode]_vars

\* the run ends as the function on the whole stream does
RunAgrees ==
    decoder.section \in {"returned", "raised"} =>
        /\ deserialize_from_binary(decoder.binary_data).err = decoder.err
        /\ deserialize_from_binary(decoder.binary_data).x = db

-----------------------------------------------------------------------------
(* A DateTime field across a save and a load.                              *)

DateTimeFields(cls) ==
    {n \in 1..Len(cls.fields) : cls.fields[n].fld.cls = "DateTimeField"}

\* C21: in every record deserialize_from_binary has added, a DateTime field
\* whose value was written under tag 0x09 holds the datetime that was
\* written, hour, minute and second included, and one whose value was
\* written under tag 0x07 holds that date at midnight.
C21_DateTimeKeepsTime ==
    \A t \in DOMAIN data : \A n \in 1..Len(data[t]) :
        \A f \in DateTimeFields(data[t][n].cls) :
            LET written == decoder.saved.data[t][n].vals[f]
                kept == data[t][n].vals[f]
            IN /\ 9 \in TagsOf(written) => kept = written
               /\ 7 \in TagsOf(written) =>
                      kept = DateTimeV(written.d[1], written.d[2], written.d[3], 0, 0, 0)

-----------------------------------------------------------------------------
(* The order of a load.                                                    *)

\* the values of a record that a load returns as they were saved: those of
\* its fields that are neither a relation nor a DateTime
KeptValues(rec) ==
    [f \in {g \in 1..Len(rec.cls.fields) :
               rec.cls.fields[g].fld.cls \notin RelationFieldClasses \cup {"DateTimeField"}}
       |-> rec.vals[f]]

\* the table names of the stream, in the order of its Tables and Data sections
StreamTables == [n \in 1..Len(decoder.saved.tables) |-> decoder.saved.tables[n].name]

\* every enum and every table of the stream is registered
AllRegistered ==
    /\ [n \in 1..Len(enums) |-> enums[n].name]
          = [n \in 1..Len(decoder.saved.enums) |-> decoder.saved.enums[n].name]
    /\ [n \in 1..Len(tables) |-> tables[n].name] = StreamTables

\* the records table t holds are the first records of t in the stream, in
\* their order
InStreamOrder(t) ==
    /\ Len(data[t]) <= Len(decoder.saved.data[t])
    /\ \A n \in 1..Len(data[t]) : KeptValues(data[t][n]) = KeptValues(decoder.saved.data[t][n])

\* C22: in every run of deserialize_from_binary, no record exists while the
\* run is in its Enums or Tables section, and once the run is in its Data
\* section or a record exists, every enum and every table of the stream is
\* registered; the records a table holds are the first records of that
\* table in the stream, in stream order, and a table holds a record only
\* when every table before it in the stream holds all of its records.
C22_TwoPhaseDecode ==
    /\ decoder.section \in {"", "enums", "tables"} => RecordCount = 0
    /\ (decoder.section \in {"data", "returned"} \/ RecordCount > 0) => AllRegistered
    /\ \A t \in DOMAIN data : InStreamOrder(t)
    /\ \A q \in 1..Len(StreamTables) :
          (StreamTables[q] \in DOMAIN data /\ Len(data[StreamTables[q]]) > 0) =>
              \A p \in 1..(q - 1) :
                  Len(data[StreamTables[p]]) = Len(decoder.saved.data[StreamTables[p]])

\* a run has returned a Database with an enum and two tables that hold
\* records, the first of them two records that differ
C22_Witness ==
    /\ decoder.section = "returned"
    /\ Len(enums) > 0
    /\ Len(tables) = 2
    /\ Len(data[tables[1].name]) = 2
    /\ KeptValues(data[tables[1].name][1]) # KeptValues(data[tables[1].name][2])
    /\ Len(data[tables[2].name]) > 0

====
